---------------------------- MODULE Spec2Model ----------------------------
(***************************************************************************)
(* Model of the multi-account proof pipeline of                            *)
(* rapidsnark-sha256-pipeline.cjs (class RapidsnarkSHA256Pipeline): the    *)
(* cycle scheduler, the per-account generation workers, submitProof with   *)
(* its retry loop, the session reconnect and the background monitor.       *)
(*                                                                         *)
(* Granularity: one action is one macrotask of the Node.js event loop (a   *)
(* child process closing, a client event, a timer firing, an awaited call  *)
(* returning) together with every promise continuation that runs before    *)
(* the next macrotask.                                                     *)
(*                                                                         *)
(* JS index i of derivedAccounts is position i+1 of the sequence here.     *)
(***************************************************************************)
EXTENDS Integers, Sequences, FiniteSets, TLC

----------------------------------------------------------------------------
(* Bounds of the model *)

\* accounts in the roster (this.accountCount; 8 in the source)
NumAccounts == 2
\* Spec: cycles the scheduler starts
MaxCycles == 2
\* Spec: failures the environment injects into a run of one cycle (a run
\* that goes on to further cycles has none)
MaxFaults == 2
\* SpecChain: failures the environment injects
ChainFaults == 3
\* SpecSched: failures the environment injects
SchedFaults == 2

(* Program constants *)

maxRetries == 3
RetryWaitSeconds == 5
SubmissionTimeoutSeconds == 20
DelayBSeconds == 7
DelayCSeconds == 13
intervalSeconds == 30

----------------------------------------------------------------------------
VARIABLES
    timed,            \* TRUE: durations are counted by Tick; FALSE: abstracted
    mode,             \* "continuous" | "single" (process.argv)
    proc,             \* "start" | "running" | "exited"
    exitCode,         \* -1 while the process lives
    session,          \* this.session: 0 is null, n > 0 the n-th session built
    derivedAccounts,  \* this.derivedAccounts
    accountStats,     \* this.stats.accountStats, keyed by address
    stats,            \* this.stats: totalAttempts, successful, failed
    health,           \* values last pushed through healthServer.updateProofStats
    sched,            \* "idle" | "generating" | "waiting"
    intervalTimer,    \* seconds left on setTimeout(runCycle, ...), -1 unarmed
    cycle,            \* number of cycles started
    worker,           \* per (cycle, index): the closure of allProofPromises
    gen,              \* per (cycle, index, k): the witness/proof child process
    tasks,            \* per (cycle, index, label): one submitProof call
    submitPromises,   \* per cycle: the local array submitPromises
    monitor,          \* per cycle: "none" | "waiting" | "done"
    budget            \* failures the environment may still inject

vars == << timed, mode, proc, exitCode, session, derivedAccounts, accountStats,
           stats, health, sched, intervalTimer, cycle, worker, gen, tasks,
           submitPromises, monitor, budget >>

----------------------------------------------------------------------------
(* Identifiers *)

Indexes == 0 .. (NumAccounts - 1)
Cycles == 1 .. MaxCycles

IsTriple(i) == i = 0

Labels(i) == IF IsTriple(i) THEN {"A", "B", "C"} ELSE {"Single"}
SubSlots(i) == IF IsTriple(i) THEN {0, 1, 2} ELSE {0}

GenIds == { <<c, i, k>> \in Cycles \X Indexes \X {0, 1, 2} : k \in SubSlots(i) }
TaskIds == { <<c, i, l>> \in Cycles \X Indexes \X {"A", "B", "C", "Single"} :
               l \in Labels(i) }
WorkerIds == Cycles \X Indexes

\* zkVerifySession ... withAccount(seed) / addDerivedAccounts: the addresses
\* are a function of the seed and the derivation index alone
DeriveAddress(i) == <<"seed", i>>
DeriveRoster(n) == [ p \in 1 .. n |-> DeriveAddress(p - 1) ]

ZeroStats == [ submitted |-> 0, successful |-> 0, failed |-> 0 ]

----------------------------------------------------------------------------
(* Error messages: a message is modelled by the set of the substrings of  *)
(* the classification table that it contains.                              *)

Patterns == { "Priority is too low", "already in the pool", "disconnected",
              "Abnormal Closure", "Connection", "timeout",
              "not found in session", "1014:" }

NoError == { "<no error>" }

\* new Error('Submission timeout after 20 seconds')
TimeoutMessage == { "timeout" }

Messages == { {} } \cup { {p} : p \in Patterns }
              \cup { {"1014:", "Priority is too low"},
                     {"disconnected", "Abnormal Closure"} }

includes(msg, p) == p \in msg

\* a classification that retries whatever the message says
shouldRetryAny(msg) == TRUE

shouldRetry(msg) ==
    \/ includes(msg, "Priority is too low")
    \/ includes(msg, "already in the pool")
    \/ includes(msg, "disconnected")
    \/ includes(msg, "Abnormal Closure")
    \/ includes(msg, "Connection")
    \/ includes(msg, "timeout")
    \/ includes(msg, "not found in session")
    \/ includes(msg, "1014:")

\* a catch block that never reconnects
isConnectionErrorNever(msg) == FALSE

\* a catch block that reconnects before every retry
isConnectionErrorAny(msg) == TRUE

isConnectionError(msg) ==
    \/ includes(msg, "disconnected")
    \/ includes(msg, "Abnormal Closure")
    \/ includes(msg, "not found in session")


----------------------------------------------------------------------------
(* Time.  With timed = TRUE timers count seconds (Tick).  With             *)
(* timed = FALSE durations are abstracted: a timer is due as soon as it is *)
(* armed, so it may fire at any later moment, and the awaited execute()    *)
(* call and the wait for its notifications are one stage of an attempt     *)
(* (they differ only in whether the 20 s timer is running yet).            *)

Arm(seconds) == IF timed THEN seconds ELSE 0

\* the stage an attempt starts in, and the timer it starts with
FirstStage == IF timed THEN "exec" ELSE "listen"
FirstDeadline == IF timed THEN -1 ELSE 0

----------------------------------------------------------------------------
(* One submitProof call and the promise built on it *)

NoTask == [ pc |-> "none", retryCount |-> 0, attempts |-> 0, timer |-> -1,
            deadline |-> -1, sess |-> 0, lastErr |-> NoError, waited |-> 0,
            included |-> FALSE, stale |-> FALSE, lateIncluded |-> FALSE,
            reconnects |-> 0, elapsed |-> 0, record |-> -1,
            result |-> "pending" ]

NoWorker == [ pc |-> "idle", addr |-> DeriveAddress(0) ]

Settled(task) == task.result # "pending"

\* .then(() => ({ success: true })) / .catch(() => ({ success: false }))
PromiseResult(pc) == IF pc = "threw" THEN "failure" ELSE "success"

\* a retry that goes on with the session its first attempt used
StartAttemptSameSession(task) ==
    [ task EXCEPT !.pc = FirstStage, !.attempts = @ + 1,
                  !.sess = IF task.sess > 0 THEN task.sess ELSE session,
                  !.timer = -1, !.deadline = FirstDeadline,
                  !.lastErr = NoError, !.waited = 0, !.elapsed = 0 ]

\* while (retryCount < maxRetries) { try { ... this.session.verify(...).execute(...)
StartAttempt(task) ==
    [ task EXCEPT !.pc = FirstStage, !.attempts = @ + 1, !.sess = session,
                  !.timer = -1, !.deadline = FirstDeadline,
                  !.lastErr = NoError, !.waited = 0, !.elapsed = 0 ]

\* a loop that ends by rethrowing the error
LoopThrows == "threw"

\* the loop ends without an exception: break, or the while condition fails
LoopExit == "returned"

\* a catch block that retries without looking at retryCount
CatchUnbounded(task, msg) ==
    LET n == task.retryCount + 1 IN
    IF shouldRetry(msg)
    THEN [ task EXCEPT !.pc = "wait", !.retryCount = n, !.lastErr = msg,
                       !.reconnects = 0, !.elapsed = 0,
                       !.timer = Arm(RetryWaitSeconds), !.deadline = -1 ]
    ELSE [ task EXCEPT !.pc = LoopExit, !.retryCount = n, !.lastErr = msg,
                       !.reconnects = 0, !.elapsed = 0,
                       !.timer = -1, !.deadline = -1,
                       !.result = PromiseResult(LoopExit) ]

\* a catch block whose wait is one second short
CatchShortWait(task, msg) ==
    LET n == task.retryCount + 1 IN
    IF shouldRetry(msg) /\ n < maxRetries
    THEN [ task EXCEPT !.pc = "wait", !.retryCount = n, !.lastErr = msg,
                       !.reconnects = 0, !.elapsed = 0,
                       !.timer = Arm(RetryWaitSeconds - 1), !.deadline = -1 ]
    ELSE [ task EXCEPT !.pc = LoopExit, !.retryCount = n, !.lastErr = msg,
                       !.reconnects = 0, !.elapsed = 0,
                       !.timer = -1, !.deadline = -1,
                       !.result = PromiseResult(LoopExit) ]

\* a catch block that waits and reconnects after a connection loss even
\* when no attempt remains
CatchReconnectsLast(task, msg) ==
    LET n == task.retryCount + 1 IN
    IF shouldRetry(msg) /\ (n < maxRetries \/ isConnectionError(msg))
    THEN [ task EXCEPT !.pc = "wait", !.retryCount = n, !.lastErr = msg,
                       !.reconnects = 0, !.elapsed = 0,
                       !.timer = Arm(RetryWaitSeconds), !.deadline = -1 ]
    ELSE [ task EXCEPT !.pc = LoopExit, !.retryCount = n, !.lastErr = msg,
                       !.reconnects = 0, !.elapsed = 0,
                       !.timer = -1, !.deadline = -1,
                       !.result = PromiseResult(LoopExit) ]

\* catch (error) { retryCount++; ... } of submitProof
Catch(task, msg) ==
    LET n == task.retryCount + 1 IN
    IF shouldRetry(msg) /\ n < maxRetries
    THEN [ task EXCEPT !.pc = "wait", !.retryCount = n, !.lastErr = msg,
                       !.reconnects = 0, !.elapsed = 0,
                       !.timer = Arm(RetryWaitSeconds), !.deadline = -1 ]
    ELSE [ task EXCEPT !.pc = LoopExit, !.retryCount = n, !.lastErr = msg,
                       !.reconnects = 0, !.elapsed = 0,
                       !.timer = -1, !.deadline = -1,
                       !.result = PromiseResult(LoopExit) ]

\* await submissionPromise; return;
\* the key of the file the IncludedInBlock handler writes:
\* `./data/sha256_submission_${this.stats.totalAttempts}.json`
RecordKey == stats.totalAttempts

Resolve(task) ==
    [ task EXCEPT !.pc = "returned", !.included = TRUE, !.timer = -1,
                  !.deadline = -1, !.elapsed = 0, !.record = RecordKey,
                  !.result = PromiseResult("returned") ]

----------------------------------------------------------------------------
(* monitorAsyncSubmissions *)

\* a monitor that resumes as soon as one submission has settled
AnySettled(c, tk, sp) ==
    \E j \in 1 .. Len(sp[c]) : Settled(tk[sp[c][j].task])

\* const submitResults = await Promise.allSettled(...)
AllSettled(c, tk, sp) ==
    \A j \in 1 .. Len(sp[c]) : Settled(tk[sp[c][j].task])

\* a monitor that takes no result for a success
CountsAsFailure(task) == FALSE

\* result.status === 'fulfilled' && result.value.success
CountsAsSuccess(task) == task.result = "success"

\* submitResults.forEach(...), entries j .. Len(sp[c]) applied to as
RECURSIVE ApplyOutcomes(_, _, _, _, _)
ApplyOutcomes(j, c, tk, sp, as) ==
    IF j > Len(sp[c]) THEN as
    ELSE LET e == sp[c][j]
             addr == derivedAccounts[e.accountIndex + 1]
             ok == CountsAsSuccess(tk[e.task])
             as2 == IF addr \in DOMAIN as
                    THEN IF ok
                         THEN [ as EXCEPT ![addr].successful = @ + 1 ]
                         ELSE [ as EXCEPT ![addr].failed = @ + 1 ]
                    ELSE as
         IN  ApplyOutcomes(j + 1, c, tk, sp, as2)

successfulSubmits(c, tk, sp) ==
    Cardinality({ j \in 1 .. Len(sp[c]) : CountsAsSuccess(tk[sp[c][j].task]) })

failedSubmits(c, tk, sp) ==
    Cardinality({ j \in 1 .. Len(sp[c]) : ~CountsAsSuccess(tk[sp[c][j].task]) })

MonitorStats(c, tk, sp, st) ==
    [ st EXCEPT !.successful = @ + successfulSubmits(c, tk, sp),
                !.failed = @ + failedSubmits(c, tk, sp) ]

\* Once the monitor of cycle c has read the results, the promises of the cycle
\* are garbage: what remains of a task is how its chain went.
Collected(c, tk) ==
    [ t \in TaskIds |->
        IF t[1] = c /\ Settled(tk[t])
        THEN [ tk[t] EXCEPT !.sess = 0, !.reconnects = 0 ]
        ELSE tk[t] ]

\* A submission of cycle c has just settled (tk holds the new tasks): the
\* monitor of c, if it is awaiting Promise.allSettled, resumes when this was
\* the last one.
SettleStep(c, tk) ==
    LET fires == monitor[c] = "waiting" /\ AllSettled(c, tk, submitPromises) IN
    /\ tasks' = IF fires THEN Collected(c, tk) ELSE tk
    /\ monitor' = IF fires THEN [ monitor EXCEPT ![c] = "done" ] ELSE monitor
    /\ accountStats' = IF fires
                       THEN ApplyOutcomes(1, c, tk, submitPromises, accountStats)
                       ELSE accountStats
    /\ stats' = IF fires THEN MonitorStats(c, tk, submitPromises, stats) ELSE stats

----------------------------------------------------------------------------
(* Initial state: the pipeline object as the constructor leaves it *)

InitCommon ==
    /\ proc = "start"
    /\ exitCode = -1
    /\ session = 0
    /\ derivedAccounts = << >>
    /\ accountStats = << >>
    /\ stats = [ totalAttempts |-> 0, successful |-> 0, failed |-> 0 ]
    /\ health = [ total |-> 0, successful |-> 0, failed |-> 0 ]
    /\ sched = "idle"
    /\ intervalTimer = -1
    /\ cycle = 0
    /\ worker = [ w \in WorkerIds |-> NoWorker ]
    /\ gen = [ g \in GenIds |-> "idle" ]
    /\ tasks = [ t \in TaskIds |-> NoTask ]
    /\ submitPromises = [ c \in Cycles |-> << >> ]
    /\ monitor = [ c \in Cycles |-> "none" ]

Init ==
    /\ InitCommon
    /\ timed = FALSE
    /\ mode \in { "continuous", "single" }
    /\ budget = MaxFaults

Alive == proc = "running"

----------------------------------------------------------------------------
(* runParallelProofCycles up to the first await of every account's closure *)

\* this.stats.accountStats[accountAddress].submitted += 3  (index 0)
\* this.stats.accountStats[accountAddress].submitted++     (the others)
\* a dispatch that counts the triple account only
CountSubmittedTriple(i, roster, as) ==
    [ as EXCEPT ![roster[1]].submitted = @ + 3 ]

RECURSIVE CountSubmitted(_, _, _)
CountSubmitted(i, roster, as) ==
    IF i >= Len(roster) THEN as
    ELSE CountSubmitted(i + 1, roster,
            [ as EXCEPT ![roster[i + 1]].submitted =
                            @ + (IF IsTriple(i) THEN 3 ELSE 1) ])

BeginCycle(roster, as) ==
    LET c == cycle + 1 IN
    /\ cycle' = c
    /\ sched' = "generating"
    /\ intervalTimer' = -1
    /\ worker' = [ w \in WorkerIds |->
                     IF w[1] = c
                     THEN [ pc |-> "witness", addr |-> roster[w[2] + 1] ]
                     ELSE worker[w] ]
    /\ gen' = [ g \in GenIds |-> IF g[1] = c THEN "witness" ELSE gen[g] ]
    /\ accountStats' = CountSubmitted(0, roster, as)

\* main(): initializeSession() succeeds, then runContinuous / runSingle start
\* the first cycle
InitializeOk ==
    /\ proc = "start"
    /\ proc' = "running"
    /\ session' = 1
    /\ derivedAccounts' = DeriveRoster(NumAccounts)
    /\ BeginCycle(derivedAccounts',
                  [ a \in { DeriveAddress(i) : i \in Indexes } |-> ZeroStats ])
    /\ UNCHANGED << timed, mode, exitCode, stats, health, tasks,
                    submitPromises, monitor, budget >>

\* What initializeSession() has assigned when a statement of its try block
\* throws: nothing up to zkVerifySession.start() (187-202), the session when
\* getAccountInfo or addDerivedAccounts throws (205-211), the roster and the
\* zeroed account counters as well when setupEventListeners throws (224).
InitFailureStages == { "session", "roster", "listeners" }

Initialized(stage) ==
    /\ session' = IF stage = "session" THEN 0 ELSE 1
    /\ derivedAccounts' = IF stage = "listeners"
                          THEN DeriveRoster(NumAccounts) ELSE << >>
    /\ accountStats' = IF stage = "listeners"
                       THEN [ a \in { DeriveAddress(i) : i \in Indexes } |->
                                ZeroStats ]
                       ELSE << >>

\* a main() that ends with exit code 0 when initialization fails
InitializeFailExitsZero ==
    /\ proc = "start"
    /\ proc' = "exited"
    /\ exitCode' = 0
    /\ \E stage \in InitFailureStages : Initialized(stage)
    /\ UNCHANGED << timed, mode, stats, health, sched, intervalTimer, cycle,
                    worker, gen, tasks, submitPromises, monitor, budget >>

\* main(): initializeSession() returns false, process.exit(1)
InitializeFail ==
    /\ proc = "start"
    /\ proc' = "exited"
    /\ exitCode' = 1
    /\ \E stage \in InitFailureStages : Initialized(stage)
    /\ UNCHANGED << timed, mode, stats, health, sched, intervalTimer, cycle,
                    worker, gen, tasks, submitPromises, monitor, budget >>

\* setTimeout(runCycle, intervalSeconds * 1000) fires
runCycle ==
    /\ Alive
    /\ sched = "waiting"
    /\ intervalTimer = 0
    /\ cycle < MaxCycles
    /\ BeginCycle(derivedAccounts, accountStats)
    /\ UNCHANGED << timed, mode, proc, exitCode, session, derivedAccounts, stats,
                    health, tasks, submitPromises, monitor >>

\* Spec: the timer fires in a run that has had no failure, and the run goes
\* on without any
StartCycle ==
    /\ cycle > 1 \/ budget = MaxFaults
    /\ budget' = 0
    /\ runCycle

\* SpecSched: the timer fires whatever has failed before
NextCycle ==
    /\ runCycle
    /\ UNCHANGED budget

----------------------------------------------------------------------------
(* Generation: witness and proof child processes *)

\* the accountIndex handed to generateWitnessWithSnarkjs /
\* generateProofWithRapidsnark, hence to getAccountTempPaths
Slot(i, k) == IF IsTriple(i) THEN i * 3 + k ELSE i

\* a Promise.all that a rejected closure leaves pending
FinishedAllDone(wk, c) == \A i \in Indexes : wk[<<c, i>>].pc = "done"

\* a Promise.race in the place of Promise.all
FinishedAny(wk, c) == \E i \in Indexes : wk[<<c, i>>].pc \in { "done", "failed" }

\* await Promise.all(allProofPromises) resolves
Finished(wk, c) == \A i \in Indexes : wk[<<c, i>>].pc \in { "done", "failed" }

Entry(c, i, l) == [ accountIndex |-> i, task |-> <<c, i, l>>, proofType |-> l ]

\* const totalAttemptsThisCycle = 3 + (this.derivedAccounts.length - 1)
totalAttemptsThisCycle == 3 + (Len(derivedAccounts) - 1)

\* a runParallelProofCycles that awaits the monitor before it returns
GenerationEndAwaits(c, tk, sp, as, st) ==
    LET st2 == [ st EXCEPT !.totalAttempts = @ + totalAttemptsThisCycle ]
        resumes == AllSettled(c, tk, sp)
    IN  /\ tasks' = IF resumes THEN Collected(c, tk) ELSE tk
        /\ health' = [ total |-> st2.totalAttempts,
                       successful |-> st2.successful, failed |-> st2.failed ]
        /\ monitor' = [ monitor EXCEPT ![c] = IF resumes THEN "done" ELSE "waiting" ]
        /\ accountStats' = IF resumes THEN ApplyOutcomes(1, c, tk, sp, as) ELSE as
        /\ stats' = IF resumes THEN MonitorStats(c, tk, sp, st2) ELSE st2
        /\ sched' = IF resumes THEN "waiting" ELSE sched
        /\ intervalTimer' = IF resumes THEN Arm(intervalSeconds) ELSE intervalTimer
        /\ UNCHANGED << proc, exitCode >>

\* a runSingle that reports a failed generation through its exit code
GenerationEndExitsOnFailure(c, tk, sp, as, st) ==
    LET st2 == [ st EXCEPT !.totalAttempts = @ + totalAttemptsThisCycle ]
        resumes == AllSettled(c, tk, sp)
                     /\ (mode = "continuous" \/ Len(sp[c]) = 0)
    IN  /\ tasks' = IF resumes THEN Collected(c, tk) ELSE tk
        /\ health' = [ total |-> st2.totalAttempts,
                       successful |-> st2.successful, failed |-> st2.failed ]
        /\ monitor' = [ monitor EXCEPT ![c] = IF resumes THEN "done" ELSE "waiting" ]
        /\ accountStats' = IF resumes THEN ApplyOutcomes(1, c, tk, sp, as) ELSE as
        /\ stats' = IF resumes THEN MonitorStats(c, tk, sp, st2) ELSE st2
        /\ IF mode = "continuous"
           THEN /\ sched' = "waiting"
                /\ intervalTimer' = Arm(intervalSeconds)
                /\ UNCHANGED << proc, exitCode >>
           ELSE /\ sched' = "idle"
                /\ proc' = "exited"
                /\ exitCode' = IF st.failed > 0 THEN 1 ELSE 0
                /\ UNCHANGED intervalTimer

\* The tail of runParallelProofCycles once Promise.all(allProofPromises) has
\* resolved, and the continuation of its caller (runCycle or runSingle).
GenerationEnd(c, tk, sp, as, st) ==
    LET st2 == [ st EXCEPT !.totalAttempts = @ + totalAttemptsThisCycle ]
        \* runSingle exits before a non-empty Promise.allSettled resumes
        resumes == AllSettled(c, tk, sp)
                     /\ (mode = "continuous" \/ Len(sp[c]) = 0)
    IN  /\ tasks' = IF resumes THEN Collected(c, tk) ELSE tk
        /\ health' = [ total |-> st2.totalAttempts,
                       successful |-> st2.successful, failed |-> st2.failed ]
        /\ monitor' = [ monitor EXCEPT ![c] = IF resumes THEN "done" ELSE "waiting" ]
        /\ accountStats' = IF resumes THEN ApplyOutcomes(1, c, tk, sp, as) ELSE as
        /\ stats' = IF resumes THEN MonitorStats(c, tk, sp, st2) ELSE st2
        /\ IF mode = "continuous"
           THEN /\ sched' = "waiting"
                /\ intervalTimer' = Arm(intervalSeconds)
                /\ UNCHANGED << proc, exitCode >>
           ELSE /\ sched' = "idle"
                /\ proc' = "exited"
                /\ exitCode' = 0
                /\ UNCHANGED intervalTimer

\* One closure of allProofPromises has run to its end; wk, gn, tk, sp, as, st
\* are the values it leaves.
WorkerStep(c, wk, gn, tk, sp, as, st) ==
    /\ worker' = wk
    /\ gen' = gn
    /\ submitPromises' = sp
    /\ IF Finished(wk, c)
       THEN GenerationEnd(c, tk, sp, as, st)
       ELSE /\ tasks' = tk
            /\ accountStats' = as
            /\ stats' = st
            /\ UNCHANGED << health, monitor, sched, intervalTimer, proc, exitCode >>

\* a failure that takes the closures of the other accounts down with it
GenerationFailedAborts(c, i, gn) ==
    LET st == [ stats EXCEPT !.failed = @ + (IF IsTriple(i) THEN 3 ELSE 1) ]
        wk == [ w \in WorkerIds |->
                  IF w[1] = c /\ worker[w].pc # "done"
                  THEN [ worker[w] EXCEPT !.pc = "failed" ] ELSE worker[w] ]
    IN  WorkerStep(c, wk, gn, tasks, submitPromises, accountStats, st)

\* a failure after which the proof is submitted all the same
GenerationFailedDispatches(c, i, gn) ==
    LET st == [ stats EXCEPT !.failed = @ + (IF IsTriple(i) THEN 3 ELSE 1) ]
    IN  WorkerStep(c, [ worker EXCEPT ![<<c, i>>].pc = "failed" ], gn,
                   [ tasks EXCEPT ![<<c, i, CHOOSE l \in Labels(i) : TRUE>>] =
                                      StartAttempt(NoTask) ],
                   submitPromises, accountStats, st)

\* a failure after which every proof of the account is submitted at once
GenerationFailedSubmitsAll(c, i, gn) ==
    LET st == [ stats EXCEPT !.failed = @ + (IF IsTriple(i) THEN 3 ELSE 1) ]
    IN  WorkerStep(c, [ worker EXCEPT ![<<c, i>>].pc = "failed" ], gn,
                   [ t \in TaskIds |->
                       IF t[1] = c /\ t[2] = i THEN StartAttempt(NoTask)
                       ELSE tasks[t] ],
                   submitPromises, accountStats, st)

\* a failure after which the generation of the account starts again
GenerationFailedRetries(c, i, gn) ==
    WorkerStep(c, [ worker EXCEPT ![<<c, i>>].pc = "witness" ],
               [ x \in GenIds |->
                   IF x[1] = c /\ x[2] = i THEN "witness" ELSE gn[x] ],
               tasks, submitPromises, accountStats, stats)

\* catch of runTripleProofCycleAsync (failed += 3), nothing for
\* runSingleProofCycleAsync; then the catch of the closure (stats.failed)
GenerationFailed(c, i, gn) ==
    LET addr == worker[<<c, i>>].addr
        as == IF IsTriple(i)
              THEN [ accountStats EXCEPT ![addr].failed = @ + 3 ]
              ELSE accountStats
        st == [ stats EXCEPT !.failed = @ + (IF IsTriple(i) THEN 3 ELSE 1) ]
        \* results of the sibling calls that had already resolved are dropped
        gn2 == [ x \in GenIds |->
                   IF x[1] = c /\ x[2] = i /\ gn[x] \in { "wok", "pok" }
                   THEN "idle" ELSE gn[x] ]
    IN  WorkerStep(c, [ worker EXCEPT ![<<c, i>>].pc = "failed" ], gn2, tasks,
                   submitPromises, as, st)

\* snarkjs closes with code 0
WitnessOk(c, i, k) ==
    LET g == <<c, i, k>>
        others == { <<c, i, j>> : j \in SubSlots(i) \ {k} }
    IN  /\ Alive
        /\ gen[g] = "witness"
        /\ IF worker[<<c, i>>].pc # "witness"
           THEN \* Promise.all has already rejected: the result is dropped
                /\ gen' = [ gen EXCEPT ![g] = "idle" ]
                /\ UNCHANGED worker
           ELSE IF \A o \in others : gen[o] = "wok"
           THEN \* all witnesses exist: the proofs are started
                /\ gen' = [ x \in GenIds |->
                              IF x = g \/ x \in others THEN "proof" ELSE gen[x] ]
                /\ worker' = [ worker EXCEPT ![<<c, i>>].pc = "proof" ]
           ELSE /\ gen' = [ gen EXCEPT ![g] = "wok" ]
                /\ UNCHANGED worker
        /\ UNCHANGED << timed, mode, proc, exitCode, session, derivedAccounts,
                        accountStats, stats, health, sched, intervalTimer, cycle,
                        tasks, submitPromises, monitor, budget >>

\* snarkjs closes with a nonzero code, or cannot be started
WitnessFail(c, i, k) ==
    LET g == <<c, i, k>> IN
    /\ Alive
    /\ gen[g] = "witness"
    /\ budget > 0
    /\ budget' = budget - 1
    /\ IF worker[<<c, i>>].pc = "witness"
       THEN GenerationFailed(c, i, [ gen EXCEPT ![g] = "idle" ])
       ELSE /\ gen' = [ gen EXCEPT ![g] = "idle" ]
            /\ UNCHANGED << worker, tasks, submitPromises, accountStats, stats,
                            health, monitor, sched, intervalTimer, proc, exitCode >>
    /\ UNCHANGED << timed, mode, session, derivedAccounts, cycle >>

\* a triple strategy that gives B and C the same delay
DispatchTogether(c, i) ==
    IF IsTriple(i)
    THEN [ tasks EXCEPT
             ![<<c, i, "A">>] = StartAttempt(NoTask),
             ![<<c, i, "B">>] = [ NoTask EXCEPT !.pc = "delay",
                                                !.timer = Arm(DelayBSeconds) ],
             ![<<c, i, "C">>] = [ NoTask EXCEPT !.pc = "delay",
                                                !.timer = Arm(DelayBSeconds) ] ]
    ELSE [ tasks EXCEPT ![<<c, i, "Single">>] = StartAttempt(NoTask) ]

\* Proofs of account index i in cycle c exist: submitProof is called
Dispatch(c, i) ==
    IF IsTriple(i)
    THEN [ tasks EXCEPT
             ![<<c, i, "A">>] = StartAttempt(NoTask),
             ![<<c, i, "B">>] = [ NoTask EXCEPT !.pc = "delay",
                                                !.timer = Arm(DelayBSeconds) ],
             ![<<c, i, "C">>] = [ NoTask EXCEPT !.pc = "delay",
                                                !.timer = Arm(DelayCSeconds) ] ]
    ELSE [ tasks EXCEPT ![<<c, i, "Single">>] = StartAttempt(NoTask) ]

\* a closure that hands one promise to the monitor whatever the strategy
PushedOne(c, i) ==
    [ submitPromises EXCEPT ![c] =
        Append(@, Entry(c, i, CHOOSE l \in Labels(i) : TRUE)) ]

\* submitPromises.push(...) of the closure of account index i
Pushed(c, i) ==
    IF IsTriple(i)
    THEN [ submitPromises EXCEPT ![c] =
             @ \o << Entry(c, i, "A"), Entry(c, i, "B"), Entry(c, i, "C") >> ]
    ELSE [ submitPromises EXCEPT ![c] = Append(@, Entry(c, i, "Single")) ]

\* the prover closes with code 0 and its files parse
ProofOk(c, i, k) ==
    LET g == <<c, i, k>>
        others == { <<c, i, j>> : j \in SubSlots(i) \ {k} }
    IN  /\ Alive
        /\ gen[g] = "proof"
        /\ IF worker[<<c, i>>].pc # "proof"
           THEN /\ gen' = [ gen EXCEPT ![g] = "idle" ]
                /\ UNCHANGED << worker, tasks, submitPromises, accountStats, stats,
                                health, monitor, sched, intervalTimer, proc,
                                exitCode >>
           ELSE IF \A o \in others : gen[o] = "pok"
           THEN WorkerStep(c, [ worker EXCEPT ![<<c, i>>].pc = "done" ],
                           [ x \in GenIds |->
                               IF x = g \/ x \in others THEN "idle" ELSE gen[x] ],
                           Dispatch(c, i), Pushed(c, i), accountStats, stats)
           ELSE /\ gen' = [ gen EXCEPT ![g] = "pok" ]
                /\ UNCHANGED << worker, tasks, submitPromises, accountStats, stats,
                                health, monitor, sched, intervalTimer, proc,
                                exitCode >>
        /\ UNCHANGED << timed, mode, session, derivedAccounts, cycle, budget >>

\* the prover closes with a nonzero code, cannot be started, or its output
\* cannot be read
ProofFail(c, i, k) ==
    LET g == <<c, i, k>> IN
    /\ Alive
    /\ gen[g] = "proof"
    /\ budget > 0
    /\ budget' = budget - 1
    /\ IF worker[<<c, i>>].pc = "proof"
       THEN GenerationFailed(c, i, [ gen EXCEPT ![g] = "idle" ])
       ELSE /\ gen' = [ gen EXCEPT ![g] = "idle" ]
            /\ UNCHANGED << worker, tasks, submitPromises, accountStats, stats,
                            health, monitor, sched, intervalTimer, proc, exitCode >>
    /\ UNCHANGED << timed, mode, session, derivedAccounts, cycle >>

----------------------------------------------------------------------------
(* submitProof: the attempts of one task t = <<cycle, index, label>> *)

ChainFrame == << timed, mode, proc, exitCode, derivedAccounts, health, sched,
                 intervalTimer, cycle, worker, gen, submitPromises >>

\* a delayed submission that starts only when the chains of the account
\* that started before it have settled
DelayFiresInTurn(t) ==
    /\ Alive
    /\ tasks[t].pc = "delay"
    /\ tasks[t].timer = 0
    /\ \A u \in TaskIds :
          (u[1] = t[1] /\ u[2] = t[2] /\ tasks[u].attempts > 0) => Settled(tasks[u])
    /\ tasks' = [ tasks EXCEPT ![t] = StartAttempt(tasks[t]) ]
    /\ UNCHANGED << timed, mode, proc, exitCode, derivedAccounts, health, sched,
                    intervalTimer, cycle, worker, gen, submitPromises, session,
                    accountStats, stats, monitor, budget >>

\* setTimeout(delay, 7000) / setTimeout(delay, 13000) of proofs B and C fires
DelayFires(t) ==
    /\ Alive
    /\ tasks[t].pc = "delay"
    /\ tasks[t].timer = 0
    /\ tasks' = [ tasks EXCEPT ![t] = StartAttempt(tasks[t]) ]
    /\ UNCHANGED << ChainFrame, session, accountStats, stats, monitor, budget >>

\* await this.session.verify(...)...execute(...) returns { events }:
\* the listeners are registered and the 20 s timer is armed
ExecuteReturns(t) ==
    /\ Alive
    /\ tasks[t].pc = "exec"
    /\ tasks' = [ tasks EXCEPT ![t].pc = "listen",
                               ![t].deadline = Arm(SubmissionTimeoutSeconds) ]
    /\ UNCHANGED << ChainFrame, session, accountStats, stats, monitor, budget >>

\* execute(...) rejects: catch (error) { reject(error) }
ExecuteThrows(t, msg) ==
    /\ Alive
    /\ tasks[t].pc = "exec"
    /\ budget > 0
    /\ budget' = budget - 1
    /\ SettleStep(t[1], [ tasks EXCEPT ![t] = Catch(tasks[t], msg) ])
    /\ UNCHANGED << ChainFrame, session >>

\* events.on(ZkVerifyEvents.IncludedInBlock, ...): resolve(true)
IncludedInBlock(t) ==
    /\ Alive
    /\ tasks[t].pc = "listen"
    /\ SettleStep(t[1], [ tasks EXCEPT ![t] = Resolve(tasks[t]) ])
    /\ UNCHANGED << ChainFrame, session, budget >>

\* events.on('error', ...): reject(error)
ErrorEvent(t, msg) ==
    /\ Alive
    /\ tasks[t].pc = "listen"
    /\ budget > 0
    /\ budget' = budget - 1
    /\ SettleStep(t[1], [ tasks EXCEPT ![t] = Catch(tasks[t], msg) ])
    /\ UNCHANGED << ChainFrame, session >>

\* the 20 s timer fires first: reject(new Error('Submission timeout ...'));
\* the listeners of the attempt stay registered on its events object
SubmissionTimeout(t) ==
    /\ Alive
    /\ tasks[t].pc = "listen"
    /\ tasks[t].deadline = 0
    /\ timed \/ budget > 0
    /\ budget' = IF timed THEN budget ELSE budget - 1
    /\ SettleStep(t[1], [ tasks EXCEPT ![t] =
                            [ Catch(tasks[t], TimeoutMessage) EXCEPT !.stale = TRUE ] ])
    /\ UNCHANGED << ChainFrame, session >>

\* IncludedInBlock arrives for an attempt that the timer has already
\* rejected: the handler runs, its resolve(true) has no effect
LateIncluded(t) ==
    /\ Alive
    /\ tasks[t].stale
    /\ tasks' = [ tasks EXCEPT ![t].stale = FALSE, ![t].lateIncluded = TRUE,
                               ![t].record = RecordKey ]
    /\ UNCHANGED << ChainFrame, session, accountStats, stats, monitor, budget >>

\* the 5 s wait is over: reconnect for a connection error, else next attempt
WaitFires(t) ==
    /\ Alive
    /\ tasks[t].pc = "wait"
    /\ tasks[t].timer = 0
    /\ tasks' = [ tasks EXCEPT ![t] =
                    IF isConnectionError(tasks[t].lastErr)
                    THEN [ tasks[t] EXCEPT !.pc = "reconnect1", !.timer = -1,
                                           !.reconnects = @ + 1 ]
                    ELSE StartAttempt(tasks[t]) ]
    /\ UNCHANGED << ChainFrame, session, accountStats, stats, monitor, budget >>

----------------------------------------------------------------------------
(* reconnectSessionWithDerivedAccounts, awaited by the task that failed *)

Reconnecting(task) == task.pc \in { "reconnect1", "reconnect2", "reconnect3" }

\* this.session = await zkVerifySession.start().Volta().withAccount(seed)
ReconnectSession(t) ==
    /\ Alive
    /\ tasks[t].pc = "reconnect1"
    /\ session' = session + 1
    /\ tasks' = [ tasks EXCEPT ![t].pc = "reconnect2" ]
    /\ UNCHANGED << ChainFrame, accountStats, stats, monitor, budget >>

\* const accountInfo = await this.session.getAccountInfo()
ReconnectAccountInfo(t) ==
    /\ Alive
    /\ tasks[t].pc = "reconnect2"
    /\ tasks' = [ tasks EXCEPT ![t].pc = "reconnect3" ]
    /\ UNCHANGED << ChainFrame, session, accountStats, stats, monitor, budget >>

\* a reconnect that derives accountCount - 1 accounts in all
RederivedShort == DeriveRoster(NumAccounts - 1)

\* the roster that addDerivedAccounts(baseAddress, accountCount - 1) yields
Rederived == DeriveRoster(NumAccounts)

\* a reconnect that zeroes the account counters as initializeSession does
ReconnectDeriveResetsStats(t) ==
    /\ Alive
    /\ tasks[t].pc = "reconnect3"
    /\ derivedAccounts' = Rederived
    /\ accountStats' = [ a \in DOMAIN accountStats |-> ZeroStats ]
    /\ tasks' = [ tasks EXCEPT ![t] = StartAttempt(tasks[t]) ]
    /\ UNCHANGED << timed, mode, proc, exitCode, health, sched, intervalTimer,
                    cycle, worker, gen, submitPromises, session, stats,
                    monitor, budget >>

\* await this.session.addDerivedAccounts(...); this.derivedAccounts = [...];
\* the function returns and the retry loop starts the next attempt
ReconnectDerive(t) ==
    /\ Alive
    /\ tasks[t].pc = "reconnect3"
    /\ derivedAccounts' = Rederived
    /\ tasks' = [ tasks EXCEPT ![t] = StartAttempt(tasks[t]) ]
    /\ UNCHANGED << timed, mode, proc, exitCode, health, sched, intervalTimer,
                    cycle, worker, gen, submitPromises, session, accountStats,
                    stats, monitor, budget >>

\* a submitProof that lets the exception of the reconnect end the chain
AfterReconnectErrorThrows(task) ==
    [ task EXCEPT !.pc = LoopThrows, !.timer = -1, !.deadline = -1,
                  !.result = PromiseResult(LoopThrows) ]

\* where submitProof goes on when the reconnect throws:
\* catch (reconnectError) { console.error(...) }, then the next attempt
AfterReconnectError(task) == StartAttempt(task)

\* one of the three awaited calls rejects; reconnect... rethrows
ReconnectFails(t) ==
    /\ Alive
    /\ Reconnecting(tasks[t])
    /\ SettleStep(t[1], [ tasks EXCEPT ![t] = AfterReconnectError(tasks[t]) ])
    /\ UNCHANGED << ChainFrame, session, budget >>

----------------------------------------------------------------------------------------------------------------------------------------
(* Time *)

Due == \E t \in TaskIds :
          \/ tasks[t].pc \in { "delay", "wait" } /\ tasks[t].timer = 0
          \/ tasks[t].pc = "listen" /\ tasks[t].deadline = 0

Dec(n) == IF n > 0 THEN n - 1 ELSE n

\* seconds since the failure of the last attempt, counted up to the wait
Waiting(task) == task.pc = "wait" \/ Reconnecting(task)
Older(task) == IF Waiting(task) /\ task.waited < RetryWaitSeconds
               THEN task.waited + 1 ELSE task.waited

\* seconds since execute() was invoked for the attempt in progress, counted
\* up to one past the submission timeout
InProgress(task) == task.pc \in { "exec", "listen" }
Aged(task) == IF InProgress(task) /\ task.elapsed <= SubmissionTimeoutSeconds
              THEN task.elapsed + 1 ELSE task.elapsed

\* one second passes; a task timer that is due fires before the next second
Tick ==
    /\ timed
    /\ Alive
    /\ ~Due
    /\ \/ intervalTimer > 0
       \/ \E t \in TaskIds : tasks[t].timer > 0 \/ tasks[t].deadline > 0
    /\ tasks' = [ t \in TaskIds |->
                    [ tasks[t] EXCEPT !.timer = Dec(@), !.deadline = Dec(@),
                                      !.waited = Older(tasks[t]),
                                      !.elapsed = Aged(tasks[t]) ] ]
    /\ intervalTimer' = Dec(intervalTimer)
    /\ UNCHANGED << timed, mode, proc, exitCode, session, derivedAccounts,
                    accountStats, stats, health, sched, cycle, worker, gen,
                    submitPromises, monitor, budget >>

----------------
(* The program *)

Generation ==
    \E g \in GenIds :
        \/ WitnessOk(g[1], g[2], g[3])
        \/ WitnessFail(g[1], g[2], g[3])
        \/ ProofOk(g[1], g[2], g[3])
        \/ ProofFail(g[1], g[2], g[3])

Submission ==
    \E t \in TaskIds :
        \/ DelayFires(t)
        \/ IncludedInBlock(t)
        \/ \E msg \in Messages : ErrorEvent(t, msg)
        \/ SubmissionTimeout(t)
        \/ LateIncluded(t)
        \/ WaitFires(t)

Reconnect ==
    \E t \in TaskIds :
        \/ ReconnectSession(t)
        \/ ReconnectAccountInfo(t)
        \/ ReconnectDerive(t)
        \/ ReconnectFails(t)

Next ==
    \/ InitializeOk
    \/ InitializeFail
    \/ StartCycle
    \/ Generation
    \/ Submission
    \/ Reconnect

Spec == Init /\ [][Next]_vars

----------------------------------------------------------------------------------------------------------------------------------------
(* One submission chain, with durations counted.  The initial state is the *)
(* state runParallelProofCycles leaves in continuous mode when the proof   *)
(* of the first single-role account has been handed to submitProof and the *)
(* generation of every other account has failed.  The start of the next    *)
(* cycle is left out.                                                      *)

\* the accounts whose proof was dispatched
Dispatched == { i \in Indexes : i = 1 }

InitChain ==
    /\ timed = TRUE
    /\ mode = "continuous"
    /\ budget = ChainFaults
    /\ proc = "running"
    /\ exitCode = -1
    /\ session = 1
    /\ derivedAccounts = DeriveRoster(NumAccounts)
    /\ accountStats =
          [ a \in { DeriveAddress(i) : i \in Indexes } |->
              IF a = DeriveAddress(0)
              THEN [ submitted |-> 3, successful |-> 0, failed |-> 3 ]
              ELSE [ submitted |-> 1, successful |-> 0, failed |-> 0 ] ]
    /\ stats = [ totalAttempts |-> 3 + (NumAccounts - 1), successful |-> 0,
                 failed |-> 3 + Cardinality(Indexes \ ({0} \cup Dispatched)) ]
    /\ health = [ total |-> stats.totalAttempts, successful |-> 0,
                  failed |-> stats.failed ]
    /\ sched = "waiting"
    /\ intervalTimer = intervalSeconds
    /\ cycle = 1
    /\ worker = [ w \in WorkerIds |->
                    IF w[1] # cycle THEN NoWorker
                    ELSE [ pc |-> IF w[2] \in Dispatched THEN "done" ELSE "failed",
                           addr |-> DeriveAddress(w[2]) ] ]
    /\ gen = [ g \in GenIds |-> "idle" ]
    /\ tasks = [ t \in TaskIds |->
                   IF t[1] = cycle /\ t[2] \in Dispatched
                   THEN [ NoTask EXCEPT !.pc = "exec", !.attempts = 1,
                                        !.sess = session ]
                   ELSE NoTask ]
    /\ submitPromises = [ c \in Cycles |->
                            IF c = cycle THEN << Entry(c, 1, "Single") >>
                            ELSE << >> ]
    /\ monitor = [ c \in Cycles |-> IF c = cycle THEN "waiting" ELSE "none" ]

NextChain ==
    \/ \E t \in TaskIds :
          \/ ExecuteReturns(t)
          \/ \E msg \in Messages : ExecuteThrows(t, msg)
          \/ IncludedInBlock(t)
          \/ \E msg \in Messages : ErrorEvent(t, msg)
          \/ SubmissionTimeout(t)
          \/ LateIncluded(t)
          \/ WaitFires(t)
    \/ Reconnect
    \/ Tick

SpecChain == InitChain /\ [][NextChain]_vars

----------------------------------------------------------------------------
(* The scheduler in continuous mode, with durations counted and with       *)
(* failures in any cycle.  The submissions of this specification are the   *)
(* ones whose execute() call stays pending or is rejected with a message   *)
(* that is not retried.                                                    *)

InitSched ==
    /\ InitCommon
    /\ timed = TRUE
    /\ mode = "continuous"
    /\ budget = SchedFaults

NextSched ==
    \/ InitializeOk
    \/ InitializeFail
    \/ NextCycle
    \/ Generation
    \/ \E t \in TaskIds :
          \/ DelayFires(t)
          \/ ExecuteThrows(t, {})
    \/ Tick

SpecSched == InitSched /\ [][NextSched]_vars

\* timers that are due fire, and time goes on; nothing is assumed about the
\* child processes or the network
SpecSchedFair ==
    /\ SpecSched
    /\ WF_vars(Tick)
    /\ WF_vars(NextCycle)
    /\ \A t \in TaskIds : WF_vars(DelayFires(t))

----------------------------------------------------------------------------
(* The health server (health-server.cjs).  Its counters are the variable   *)
(* health; its 10 s interval is not counted, the refresh fires at any      *)
(* moment.  ./data is taken to be absent when the process starts, so that  *)
(* it holds the records this run has written.                              *)

\* files.filter(f => f.startsWith('sha256_submission_')): the record files
\* in ./data, by key; a task counts by the record it wrote last
submissionFiles == { tasks[t].record : t \in TaskIds } \ { -1 }

\* Math.floor(this.stats.totalProofs * 0.8)
EstimateSuccessful(total) == (total * 8) \div 10

\* setInterval(() => this.updateStatsFromFiles(), 10000) fires:
\* if (fs.existsSync('./data')) { totalProofs = submissionFiles.length; ... }
\* (the handler of IncludedInBlock creates ./data with its first record)
updateStatsFromFiles ==
    /\ Alive
    /\ submissionFiles # {}
    /\ LET total == Cardinality(submissionFiles) IN
       health' = [ total |-> total,
                   successful |-> EstimateSuccessful(total),
                   failed |-> total - EstimateSuccessful(total) ]
    /\ UNCHANGED << timed, mode, proc, exitCode, session, derivedAccounts,
                    accountStats, stats, sched, intervalTimer, cycle, worker,
                    gen, tasks, submitPromises, monitor, budget >>

\* the program with the refresh of the health server; the submissions of
\* this specification are the ones that are included in a block
NextHealth ==
    \/ InitializeOk
    \/ InitializeFail
    \/ StartCycle
    \/ Generation
    \/ \E t \in TaskIds :
          \/ DelayFires(t)
          \/ IncludedInBlock(t)
    \/ updateStatsFromFiles

SpecHealth == Init /\ [][NextHealth]_vars

----------------------------------------------------------------------------
(* Fair timers: a timer that is due fires, and time goes on *)

SpecChainFair ==
    /\ SpecChain
    /\ WF_vars(Tick)
    /\ \A t \in TaskIds : WF_vars(WaitFires(t)) /\ WF_vars(SubmissionTimeout(t))

----------------------------------------------------------------------------
(* Properties *)

\* the account that index i of the roster names
AccountOf(i) == derivedAccounts[i + 1]

\* the chain of task t has ended and the monitor of its cycle has counted it
Monitored(t) == tasks[t].pc = "returned" /\ monitor[t[1]] = "done"

\* an attempt of task t fails in this step; lastErr' is the message
Fails(t) ==
    /\ tasks[t].pc \in { "exec", "listen" }
    /\ tasks'[t].lastErr # NoError

StartsAttempt(t) == tasks'[t].attempts = tasks[t].attempts + 1

\* C1: for every account, in every reachable state, successful + failed is
\* at most submitted.
C1_CountersBounded ==
    \A a \in DOMAIN accountStats :
        accountStats[a].successful + accountStats[a].failed
            <= accountStats[a].submitted

\* the monitor of the second cycle has applied its outcomes while the
\* monitor of the first cycle is still waiting
C1_Witness ==
    /\ monitor[1] = "waiting"
    /\ monitor[2] = "done"
    /\ \E a \in DOMAIN accountStats :
          accountStats[a].successful > 0 /\ accountStats[a].submitted = 2

\* C2: a task whose chain ends in failure is counted as a failure and not as
\* a success, so an account's successful counter is the number of its
\* monitored tasks whose chain ended with an Included notification.
C2_FailedChainCountedFailed ==
    \A i \in Indexes :
        i < Len(derivedAccounts) =>
            accountStats[AccountOf(i)].successful =
                Cardinality({ t \in TaskIds :
                                t[2] = i /\ Monitored(t) /\ tasks[t].included })

\* in every cycle so far the generation of account index i has failed, or
\* its proofs were dispatched and the monitor of the cycle has counted them
AllSettledFor(i) ==
    /\ cycle >= 1
    /\ \A c \in 1 .. cycle :
          \/ worker[<<c, i>>].pc = "failed"
          \/ worker[<<c, i>>].pc = "done" /\ monitor[c] = "done"

\* C3: once every task dispatched for an account has settled (its
\* generation failed, or its chain ended and the monitor has counted it),
\* successful + failed = submitted for that account.
C3_SettledCountersEqual ==
    \A i \in Indexes :
        AllSettledFor(i) =>
            accountStats[AccountOf(i)].successful + accountStats[AccountOf(i)].failed
                = accountStats[AccountOf(i)].submitted

\* the child process of generation call g is running
Outstanding(g) == gen[g] \in { "witness", "proof" }

\* C4: generation calls that are outstanding at the same time use pairwise
\* distinct slots.
C4_DistinctSlots ==
    \A g, h \in GenIds :
        g # h /\ Outstanding(g) /\ Outstanding(h) =>
            Slot(g[2], g[3]) # Slot(h[2], h[3])

\* C5: no submission task makes more than maxRetries attempts.
C5_AtMostMaxRetries == \A t \in TaskIds : tasks[t].attempts <= maxRetries

\* a chain that used all its attempts, the last one lost to a connection error
C5_Witness ==
    \E t \in TaskIds :
        /\ tasks[t].pc = "returned"
        /\ tasks[t].attempts = maxRetries
        /\ isConnectionError(tasks[t].lastErr)

\* C6: an attempt that fails with a message containing none of the retryable
\* substrings ends the task in that step, without a wait, a reconnect or a
\* further attempt, and a task that has ended stays ended.
C6_NonRetryableEndsTask ==
    [][ \A t \in TaskIds :
          /\ Fails(t) /\ tasks'[t].lastErr \cap Patterns = {} =>
                /\ tasks'[t].pc = "returned"
                /\ tasks'[t].timer = -1
                /\ tasks'[t].attempts = tasks[t].attempts
                /\ session' = session
          /\ tasks[t].pc = "returned" =>
                /\ tasks'[t].pc = "returned"
                /\ tasks'[t].attempts = tasks[t].attempts ]_vars

\* the first attempt of a task failed with a non-matching message
C6_Witness ==
    \E t \in TaskIds :
        /\ tasks[t].pc = "returned"
        /\ tasks[t].lastErr = {}
        /\ tasks[t].attempts = 1

C8_IncludedEndsTask ==
    \A t \in TaskIds :
        tasks[t].included \/ tasks[t].lateIncluded =>
            tasks[t].pc = "returned" /\ tasks[t].result = "success"

\* C9: submitProof never raises: no chain ends with an exception, so no
\* promise built on it is rejected and the process keeps running.
C9_NeverRaises ==
    /\ Alive
    /\ \A t \in TaskIds : tasks[t].pc # "threw" /\ tasks[t].result # "failure"

\* a chain that lost every attempt to the deadline has returned
C9_Witness ==
    \E t \in TaskIds :
        /\ tasks[t].pc = "returned"
        /\ ~tasks[t].included
        /\ tasks[t].retryCount = maxRetries
        /\ tasks[t].lastErr = TimeoutMessage

\* the entries of account index i that the monitor of cycle c reads
EntriesOf(c, i) ==
    { j \in 1 .. Len(submitPromises'[c]) : submitPromises'[c][j].accountIndex = i }

\* C10: when the monitor of a cycle applies its outcomes, an account whose
\* tasks of that cycle all ended with an Included notification gets one
\* success per task and no failure.
C10_SuccessCountedOnce ==
    [][ \A c \in Cycles : \A i \in Indexes :
          ( /\ monitor[c] # "done"
            /\ monitor'[c] = "done"
            /\ EntriesOf(c, i) # {}
            /\ \A j \in EntriesOf(c, i) :
                  tasks'[submitPromises'[c][j].task].included )
          => /\ accountStats'[derivedAccounts'[i + 1]].successful =
                  accountStats[derivedAccounts'[i + 1]].successful
                      + Cardinality(EntriesOf(c, i))
             /\ accountStats'[derivedAccounts'[i + 1]].failed =
                  accountStats[derivedAccounts'[i + 1]].failed ]_vars

\* one cycle: the three proofs of the triple account and the proof of a
\* single account, the latter on its third attempt, are counted
C10_Witness ==
    /\ cycle = 1
    /\ monitor[1] = "done"
    /\ accountStats[AccountOf(0)] =
          [ submitted |-> 3, successful |-> 3, failed |-> 0 ]
    /\ \E i \in Indexes \ {0} :
          /\ accountStats[AccountOf(i)] =
                [ submitted |-> 1, successful |-> 1, failed |-> 0 ]
          /\ tasks[<<1, i, "Single">>].included
          /\ tasks[<<1, i, "Single">>].attempts = maxRetries

\* the substrings that make the catch block reconnect
ConnectionLoss == { "disconnected", "Abnormal Closure", "not found in session" }

\* the message of the last failed attempt of task t asks for a reconnect
LostConnection(t) == tasks[t].lastErr \cap ConnectionLoss # {}

\* C11: after an attempt failed with a connection-loss message while attempts
\* remain, the task starts a reconnect when the 5 s wait is over and at no
\* other moment, a reconnect that is under way only moves on to its end, and
\* the next attempt starts in the step that ends the reconnect (by its
\* return or by its exception), not earlier: one reconnect between the two
\* attempts.
C11_OneReconnectBeforeRetry ==
    [][ \A t \in TaskIds :
          /\ (tasks[t].pc = "wait" /\ tasks'[t].pc # "wait" /\ LostConnection(t))
                => /\ tasks'[t].pc = "reconnect1"
                   /\ tasks[t].waited >= RetryWaitSeconds
                   /\ ~StartsAttempt(t)
          /\ (tasks'[t].pc = "reconnect1" /\ tasks[t].pc # "reconnect1")
                => tasks[t].pc = "wait" /\ LostConnection(t)
          /\ (tasks[t].pc = "reconnect1" /\ tasks'[t].pc # "reconnect1")
                => tasks'[t].pc = "reconnect2" \/ StartsAttempt(t)
          /\ (tasks[t].pc = "reconnect2" /\ tasks'[t].pc # "reconnect2")
                => tasks'[t].pc = "reconnect3" \/ StartsAttempt(t)
          /\ (tasks[t].pc = "reconnect3" /\ tasks'[t].pc # "reconnect3")
                => StartsAttempt(t)
          /\ (tasks[t].attempts >= 1 /\ StartsAttempt(t) /\ LostConnection(t))
                => Reconnecting(tasks[t]) /\ tasks[t].reconnects = 1 ]_vars

\* the second attempt of a task runs on the session that the task's
\* reconnect built after a "disconnected" failure
C11_Witness ==
    \E t \in TaskIds :
        /\ tasks[t].attempts = 2
        /\ tasks[t].retryCount = 1
        /\ tasks[t].pc = "listen"
        /\ tasks[t].reconnects = 1
        /\ tasks[t].sess = 2
        /\ session = 2

\* C12: a task whose last attempt failed with a retryable message that
\* contains none of the connection-loss substrings never is in a reconnect;
\* its next attempt starts when the wait is over, and no step of the task
\* between the failure and that attempt changes the session or the roster.
C12_TransientNoReconnect ==
    [][ \A t \in TaskIds :
          /\ (tasks[t].lastErr \cap Patterns # {} /\ ~LostConnection(t))
                => ~Reconnecting(tasks[t])
          /\ ( /\ tasks[t].pc \in { "exec", "listen", "wait" }
               /\ tasks'[t] # tasks[t]
               /\ tasks'[t].lastErr \cup tasks[t].lastErr # NoError
               /\ tasks'[t].lastErr \cap ConnectionLoss = {}
               /\ tasks[t].lastErr \cap ConnectionLoss = {}
               /\ \A u \in TaskIds \ {t} : tasks'[u] = tasks[u] )
                => /\ session' = session
                   /\ derivedAccounts' = derivedAccounts
                   /\ tasks'[t].reconnects = 0
                   /\ (tasks[t].pc = "wait" /\ tasks'[t].pc # "wait")
                         => StartsAttempt(t) ]_vars

\* the second attempt of a task, after a transient failure, runs on the
\* session the first attempt ran on
C12_Witness ==
    \E t \in TaskIds :
        /\ tasks[t].attempts = 2
        /\ tasks[t].retryCount = 1
        /\ tasks[t].pc = "listen"
        /\ tasks[t].reconnects = 0
        /\ tasks[t].sess = 1
        /\ session = 1

\* C13: an attempt is failed by the deadline SubmissionTimeoutSeconds after
\* its execute() call was invoked, whether or not that call has returned: no
\* attempt is still in progress later than that.
C13_DeadlineFromInvocation ==
    \A t \in TaskIds :
        InProgress(tasks[t]) => tasks[t].elapsed <= SubmissionTimeoutSeconds

\* every closure of allProofPromises of cycle c has ended
GenerationOver(c) ==
    \A i \in Indexes : worker[<<c, i>>].pc \in { "done", "failed" }

\* a closure of allProofPromises of cycle c is awaiting a child process
InGeneration(c) ==
    \E i \in Indexes : worker[<<c, i>>].pc \in { "witness", "proof" }

C15_OneGenerationPhase ==
    /\ [][ sched' # sched =>
             << sched, sched' >> \in { << "idle", "generating" >>,
                                       << "generating", "waiting" >>,
                                       << "waiting", "generating" >> } ]_vars
    /\ []( intervalTimer >= 0 => sched = "waiting" /\ GenerationOver(cycle) )
    /\ []( \A c \in Cycles : InGeneration(c) => c = cycle /\ sched = "generating" )
    /\ []( sched = "generating" => InGeneration(cycle) )

\* the second cycle is in its generation phase after a first cycle in which
\* the generation of one account failed and the proof of another was
\* dispatched
C15_Witness ==
    /\ cycle = 2
    /\ sched = "generating"
    /\ InGeneration(2)
    /\ \E i, j \in Indexes :
          worker[<<1, i>>].pc = "failed" /\ worker[<<1, j>>].pc = "done"

\* a submission of cycle c is dispatched and has not settled
Unsettled(c) ==
    \E t \in TaskIds : t[1] = c /\ tasks[t].pc # "none" /\ ~Settled(tasks[t])

Entries(c, i) ==
    { j \in 1 .. Len(submitPromises[c]) : submitPromises[c][j].accountIndex = i }

\* the submissions a roster of NumAccounts accounts stands for: 3T + S
ExpectedPerCycle ==
    3 * Cardinality({ i \in Indexes : IsTriple(i) })
        + Cardinality({ i \in Indexes : ~IsTriple(i) })

\* the accounts whose generation succeeded in cycle c
Generated(c) == { i \in Indexes : worker[<<c, i>>].pc = "done" }

\* C17 as stated: every cycle hands exactly 3T + S submission tasks to its
\* monitor.
C17_AlwaysFullDispatch ==
    \A c \in Cycles :
        monitor[c] # "none" => Len(submitPromises[c]) = ExpectedPerCycle

\* C17, amended: a cycle hands to its monitor 3 tasks for the triple-role
\* account and 1 for each single-role account whose generation succeeded,
\* each of them dispatched, and none for an account whose generation
\* failed: exactly 3T + S when every generation succeeded, fewer otherwise.
C17_DispatchPerGeneratedAccount ==
    \A c \in Cycles :
        monitor[c] # "none" =>
            /\ \A i \in Indexes :
                  /\ Cardinality(Entries(c, i)) =
                        (IF i \in Generated(c) THEN Cardinality(Labels(i)) ELSE 0)
                  /\ { submitPromises[c][j].proofType : j \in Entries(c, i) } =
                        (IF i \in Generated(c) THEN Labels(i) ELSE {})
            /\ \A j \in 1 .. Len(submitPromises[c]) :
                  tasks[submitPromises[c][j].task].pc # "none"
            /\ Len(submitPromises[c]) <= ExpectedPerCycle
            /\ (Generated(c) = Indexes) <=> (Len(submitPromises[c]) = ExpectedPerCycle)

\* a cycle in which the generation of one single-role account failed has
\* handed one task less to its monitor
C17_Witness ==
    /\ monitor[1] # "none"
    /\ \E i \in Indexes \ {0} : Generated(1) = Indexes \ {i}
    /\ Len(submitPromises[1]) = ExpectedPerCycle - 1

\* C18: the step in which the generation of an account fails changes no
\* closure, child process or dispatched entry of another account and does
\* not end the process abnormally; an account whose own generation
\* succeeded has its submissions dispatched, whatever happened to the
\* others; and a generation phase in which every closure has ended is over.
C18_FailureIsLocal ==
    /\ [][ \A c \in Cycles : \A i \in Indexes :
             (worker[<<c, i>>].pc # "failed" /\ worker'[<<c, i>>].pc = "failed")
                => /\ \A w \in WorkerIds \ {<<c, i>>} : worker'[w] = worker[w]
                   /\ \A g \in GenIds : g[2] # i => gen'[g] = gen[g]
                   /\ submitPromises' = submitPromises
                   /\ \A t \in TaskIds : tasks'[t].pc = tasks[t].pc
                   /\ exitCode' \in { -1, 0 }
                   /\ mode = "continuous" => proc' = "running" ]_vars
    /\ []( \A c \in Cycles : \A i \in Generated(c) :
             \A l \in Labels(i) :
                /\ tasks[<<c, i, l>>].pc # "none"
                /\ \E j \in 1 .. Len(submitPromises[c]) :
                      submitPromises[c][j] = Entry(c, i, l) )
    /\ []( (cycle >= 1 /\ GenerationOver(cycle))
             => sched # "generating" /\ exitCode \in { -1, 0 } )

\* the generation of the triple-role account failed and the proof of a
\* single-role account of the same cycle was dispatched
C18_Witness ==
    /\ worker[<<1, 0>>].pc = "failed"
    /\ \E i \in Indexes \ {0} :
          /\ worker[<<1, i>>].pc = "done"
          /\ tasks[<<1, i, "Single">>].attempts >= 1
    /\ monitor[1] # "none"

\* C19: an account whose generation failed in the first cycle has the
\* failure in its own statistics: failed is 3 for the triple-role account
\* and 1 for a single-role account.
C19_GenerationFailureRecorded ==
    \A i \in Indexes :
        (cycle = 1 /\ worker[<<1, i>>].pc = "failed")
            => accountStats[AccountOf(i)].failed = (IF IsTriple(i) THEN 3 ELSE 1)

\* C20: the task of a single-role account exists only when the account's
\* generation has succeeded; its first attempt starts in the step in which
\* the proof child process closes successfully, which follows the successful
\* close of the witness child process; and after a generation failure the
\* task never makes an attempt.
C20_GenerationBeforeSubmission ==
    /\ []( \A c \in Cycles : \A i \in Indexes \ {0} :
             /\ tasks[<<c, i, "Single">>].pc # "none"
                   => worker[<<c, i>>].pc = "done"
             /\ worker[<<c, i>>].pc = "failed"
                   => tasks[<<c, i, "Single">>] = NoTask )
    /\ [][ \A c \in Cycles : \A i \in Indexes \ {0} :
             /\ (tasks[<<c, i, "Single">>].attempts = 0
                    /\ tasks'[<<c, i, "Single">>].attempts = 1)
                   => /\ worker[<<c, i>>].pc = "proof"
                      /\ gen[<<c, i, 0>>] = "proof"
                      /\ worker'[<<c, i>>].pc = "done"
             /\ (worker[<<c, i>>].pc # "proof" /\ worker'[<<c, i>>].pc = "proof")
                   => /\ worker[<<c, i>>].pc = "witness"
                      /\ gen[<<c, i, 0>>] = "witness"
                      /\ gen'[<<c, i, 0>>] = "proof"
             /\ worker[<<c, i>>].pc = "failed"
                   => worker'[<<c, i>>].pc = "failed" ]_vars

\* the generation of a single-role account failed, the cycle's monitor has
\* finished, and the account's task was never started
C20_Witness ==
    \E i \in Indexes \ {0} :
        /\ worker[<<1, i>>].pc = "failed"
        /\ monitor[1] = "done"
        /\ tasks[<<1, i, "Single">>] = NoTask
        /\ tasks[<<1, 0, "A">>].included

\* the tasks of the triple-role account in cycle c
TripleTasks(c) == { <<c, 0, l>> : l \in Labels(0) }

\* C21: a task of the triple-role account exists only when the generation
\* of the account has succeeded; A makes its first attempt, and B and C are
\* scheduled, in the step in which the last of the three proof child
\* processes closes successfully, the other two having closed successfully
\* before, which follows the successful close of all three witness child
\* processes; B and C make their first attempt only out of their delay; and
\* when the generation has failed none of A, B, C is ever started.
C21_TripleAllOrNothing ==
    /\ []( \A c \in Cycles :
             /\ (\E t \in TripleTasks(c) : tasks[t].pc # "none")
                   => /\ worker[<<c, 0>>].pc = "done"
                      /\ \A t \in TripleTasks(c) : tasks[t].pc # "none"
             /\ worker[<<c, 0>>].pc = "failed"
                   => \A t \in TripleTasks(c) : tasks[t] = NoTask )
    /\ [][ \A c \in Cycles :
             /\ (\E t \in TripleTasks(c) : tasks[t].pc = "none" /\ tasks'[t].pc # "none")
                   => /\ worker[<<c, 0>>].pc = "proof"
                      /\ worker'[<<c, 0>>].pc = "done"
                      /\ \A k \in SubSlots(0) : gen[<<c, 0, k>>] \in { "proof", "pok" }
                      /\ Cardinality({ k \in SubSlots(0) : gen[<<c, 0, k>>] = "proof" }) = 1
                      /\ tasks'[<<c, 0, "A">>].attempts = 1
                      /\ tasks'[<<c, 0, "B">>].pc = "delay"
                      /\ tasks'[<<c, 0, "C">>].pc = "delay"
             /\ (worker[<<c, 0>>].pc # "proof" /\ worker'[<<c, 0>>].pc = "proof")
                   => /\ worker[<<c, 0>>].pc = "witness"
                      /\ \A k \in SubSlots(0) : gen[<<c, 0, k>>] \in { "witness", "wok" }
                      /\ \A k \in SubSlots(0) : gen'[<<c, 0, k>>] = "proof"
             /\ \A l \in { "B", "C" } :
                   (tasks[<<c, 0, l>>].attempts = 0 /\ tasks'[<<c, 0, l>>].attempts = 1)
                      => tasks[<<c, 0, l>>].pc = "delay"
             /\ worker[<<c, 0>>].pc = "failed" => worker'[<<c, 0>>].pc = "failed" ]_vars

\* one proof generation of the triple-role account has failed after its
\* three witnesses were generated; a sibling prover is still running;
\* nothing of the account is submitted
C21_Witness ==
    /\ worker[<<1, 0>>].pc = "failed"
    /\ \E k \in SubSlots(0) : gen[<<1, 0, k>>] = "proof"
    /\ \A t \in TripleTasks(1) : tasks[t] = NoTask
    /\ monitor[1] # "none"

\* C22: the witness child process of a generation call is started only when
\* its cycle starts, its proof child process only after the witness
\* generation of its account, and a call that has ended is not started
\* again; a closure that has failed stays failed and one that is done stays
\* done.
C22_GenerationNeverRetried ==
    [][ /\ \A g \in GenIds :
             /\ (gen[g] # "witness" /\ gen'[g] = "witness")
                   => gen[g] = "idle" /\ cycle' = cycle + 1 /\ g[1] = cycle'
             /\ (gen[g] # "proof" /\ gen'[g] = "proof")
                   => gen[g] \in { "witness", "wok" }
             /\ (gen[g] # "wok" /\ gen'[g] = "wok") => gen[g] = "witness"
             /\ (gen[g] # "pok" /\ gen'[g] = "pok") => gen[g] = "proof"
             /\ (gen[g] = "idle" /\ g[1] <= cycle) => gen'[g] = "idle"
       /\ \A w \in WorkerIds :
             /\ worker[w].pc \in { "failed", "done" } => worker'[w] = worker[w]
             /\ (worker[w].pc # "witness" /\ worker'[w].pc = "witness")
                   => worker[w].pc = "idle" /\ w[1] = cycle' /\ cycle' = cycle + 1
             /\ worker[w].pc = "proof" => worker'[w].pc # "witness" ]_vars

\* a cycle is over in which the generation of every account has failed
\* once, and no child process runs any more
C22_Witness ==
    /\ monitor[1] = "done"
    /\ \A i \in Indexes :
          /\ worker[<<1, i>>].pc = "failed"
          /\ \A k \in SubSlots(i) : gen[<<1, i, k>>] = "idle"
    /\ stats.failed = ExpectedPerCycle

\* task t makes its first attempt in this step
FirstAttempt(t) == tasks[t].attempts = 0 /\ tasks'[t].attempts = 1

\* C23: in the step in which the three proofs of the triple-role account
\* are ready A makes its first attempt and B and C are given 7 and 13
\* seconds; B makes its first attempt exactly 7 seconds and C exactly 13
\* seconds after that step (A's attempt, while it lasts, is then 7 and 13
\* seconds old, and B's 6 when C starts): A, then B, then C.
C23_TripleOffsets ==
    [][ \A c \in Cycles :
          LET A == <<c, 0, "A">>
              B == <<c, 0, "B">>
              C == <<c, 0, "C">>
          IN  /\ FirstAttempt(A)
                    => /\ tasks'[A].elapsed = 0
                       /\ tasks'[B].pc = "delay" /\ tasks'[B].timer = 7
                       /\ tasks'[C].pc = "delay" /\ tasks'[C].timer = 13
              /\ FirstAttempt(B)
                    => /\ tasks[B].pc = "delay" /\ tasks[B].timer = 0
                       /\ tasks[A].attempts >= 1
                       /\ InProgress(tasks[A]) => tasks[A].elapsed = 7
                       /\ tasks[C].pc = "delay" /\ tasks[C].timer = 13 - 7
                       /\ tasks'[C] = tasks[C]
              /\ FirstAttempt(C)
                    => /\ tasks[C].pc = "delay" /\ tasks[C].timer = 0
                       /\ tasks[A].attempts >= 1 /\ tasks[B].attempts >= 1
                       /\ InProgress(tasks[A]) => tasks[A].elapsed = 13
                       /\ InProgress(tasks[B]) => tasks[B].elapsed = 13 - 7
              /\ \A t \in { B, C } :
                    (tasks[t].pc = "delay" /\ tasks'[t].pc = "delay")
                       => tasks'[t].timer \in { tasks[t].timer, tasks[t].timer - 1 } ]_vars

\* C has just made its first attempt while the first attempts of A and B
\* are still in progress, 13 and 6 seconds old
C23_Witness ==
    \E c \in Cycles :
        /\ tasks[<<c, 0, "C">>].attempts = 1
        /\ tasks[<<c, 0, "C">>].pc = "exec"
        /\ tasks[<<c, 0, "C">>].elapsed = 0
        /\ tasks[<<c, 0, "A">>].pc = "exec"
        /\ tasks[<<c, 0, "A">>].elapsed = 13
        /\ tasks[<<c, 0, "B">>].pc = "exec"
        /\ tasks[<<c, 0, "B">>].elapsed = 6

\* C24: a delayed submission of the triple-role account whose delay has
\* run down can start whatever the state of the other chains, and its start
\* changes no other chain; the closure of the account ends, with the three
\* promises handed over, in the step in which A makes its first attempt,
\* when none of A, B, C has settled.
C24_TripleChainsConcurrent ==
    /\ []( \A c \in Cycles : \A l \in { "B", "C" } :
             (Alive /\ tasks[<<c, 0, l>>].pc = "delay" /\ tasks[<<c, 0, l>>].timer = 0)
                => ENABLED DelayFires(<<c, 0, l>>) )
    /\ [][ \A c \in Cycles :
             /\ FirstAttempt(<<c, 0, "A">>)
                   => /\ worker'[<<c, 0>>].pc = "done"
                      /\ \A t \in TripleTasks(c) :
                            /\ ~Settled(tasks'[t])
                            /\ \E j \in 1 .. Len(submitPromises'[c]) :
                                  submitPromises'[c][j].task = t
             /\ \A l \in { "B", "C" } :
                   FirstAttempt(<<c, 0, l>>)
                      => \A u \in TaskIds \ { <<c, 0, l>> } : tasks'[u] = tasks[u] ]_vars

\* B has made its first attempt on the session that A's reconnect has just
\* built, A is still in that reconnect, C is still delayed
C24_Witness ==
    \E c \in Cycles :
        /\ tasks[<<c, 0, "A">>].pc \in { "reconnect2", "reconnect3" }
        /\ session = 2
        /\ \A u \in TaskIds \ { <<c, 0, "A">> } : tasks[u].retryCount = 0
        /\ tasks[<<c, 0, "B">>].attempts = 1
        /\ InProgress(tasks[<<c, 0, "B">>])
        /\ tasks[<<c, 0, "B">>].sess = 2
        /\ tasks[<<c, 0, "C">>].pc = "delay"

\* the roster as initializeSession built it
InitialRoster == DeriveRoster(NumAccounts)

C26_InFlightKeepSession ==
    /\ [][ \A t \in TaskIds :
             /\ (session' # session /\ InProgress(tasks[t]))
                   => tasks'[t] = tasks[t]
             /\ (InProgress(tasks[t]) /\ InProgress(tasks'[t])
                    /\ tasks'[t].attempts = tasks[t].attempts)
                   => tasks'[t].sess = tasks[t].sess
             /\ StartsAttempt(t) => tasks'[t].sess = session' ]_vars
    /\ [][ session' # session => session' = session + 1 ]_vars
    /\ []( \A t \in TaskIds :
             InProgress(tasks[t]) => tasks[t].sess \in 1 .. session )

\* one attempt is in progress on the first session while another task,
\* after its reconnect, is on its second attempt on the second session
C26_Witness ==
    \E t, u \in TaskIds :
        /\ session = 2
        /\ InProgress(tasks[t])
        /\ tasks[t].attempts = 1
        /\ tasks[t].sess = 1
        /\ InProgress(tasks[u])
        /\ tasks[u].attempts = 2
        /\ tasks[u].reconnects = 1
        /\ tasks[u].sess = 2

\* the sum of one counter over the accounts in S
RECURSIVE SumStat(_, _)
SumStat(S, field) ==
    IF S = {} THEN 0
    ELSE LET a == CHOOSE x \in S : TRUE
         IN  accountStats[a][field] + SumStat(S \ {a}, field)

\* C27: whenever no cycle is in its generation phase, totalAttempts is the
\* sum of submitted, global successful the sum of successful and global
\* failed the sum of failed over all accounts.
C27_GlobalIsSumOfAccounts ==
    (cycle >= 1 /\ sched # "generating") =>
        /\ stats.totalAttempts = SumStat(DOMAIN accountStats, "submitted")
        /\ stats.successful = SumStat(DOMAIN accountStats, "successful")
        /\ stats.failed = SumStat(DOMAIN accountStats, "failed")

\* C28: in single-shot mode at most one cycle starts; as soon as the
\* generation phase of that cycle is over the process has exited; the exit
\* code is 0 when initialization succeeded, whatever failed in the cycle, and
\* 1 exactly when initialization failed and no cycle ran.
C28_SingleShotExit ==
    mode = "single" =>
        /\ cycle <= 1
        /\ (proc = "exited") = (exitCode # -1)
        /\ (cycle = 1 /\ GenerationOver(1)) => proc = "exited"
        /\ proc = "exited" => exitCode = (IF cycle = 1 THEN 0 ELSE 1)
        /\ proc = "exited" /\ cycle = 1 => GenerationOver(1)

\* a single-shot run has exited with code 0 although the generation of one
\* account failed and a dispatched submission has not settled
C28_Witness ==
    /\ mode = "single"
    /\ proc = "exited"
    /\ exitCode = 0
    /\ \E i \in Indexes : worker[<<1, i>>].pc = "failed"
    /\ Unsettled(1)

\* C29: when initialization has failed the process has ended with exit code
\* 1, in either mode, and nothing of a cycle has happened: no cycle has
\* started, no child process and no submission exists, every counter is
\* zero and nothing was pushed to the health server; and an ended process
\* takes no further step.
C29_InitFailureIsFatal ==
    /\ []( (proc = "exited" /\ cycle = 0) =>
              /\ exitCode = 1
              /\ sched = "idle" /\ intervalTimer = -1
              /\ \A w \in WorkerIds : worker[w] = NoWorker
              /\ \A g \in GenIds : gen[g] = "idle"
              /\ \A t \in TaskIds : tasks[t] = NoTask
              /\ \A c \in Cycles : submitPromises[c] = << >> /\ monitor[c] = "none"
              /\ stats = [ totalAttempts |-> 0, successful |-> 0, failed |-> 0 ]
              /\ health = [ total |-> 0, successful |-> 0, failed |-> 0 ]
              /\ \A a \in DOMAIN accountStats : accountStats[a] = ZeroStats )
    /\ []( exitCode = 1 => (proc = "exited" /\ cycle = 0) )
    /\ [][ proc # "exited" ]_vars

\* a continuous run whose initialization failed after the session was
\* built has ended with exit code 1
C29_Witness ==
    /\ mode = "continuous"
    /\ proc = "exited"
    /\ exitCode = 1
    /\ session = 1
    /\ cycle = 0

\* the successful submissions, each with the record its IncludedInBlock
\* handler has written
Recorded == { t \in TaskIds : tasks[t].included /\ tasks[t].record # -1 }

\* C30: two distinct successful submissions never write their record under
\* the same filename key, so that no record is overwritten.
C30_RecordsNeverOverwritten ==
    \A t, u \in Recorded : t # u => tasks[t].record # tasks[u].record

\* C31: every submission task that has been dispatched eventually settles,
\* and the monitor of its cycle eventually applies the outcomes, when the
\* timers are fair and the submission client does whatever it does.
C31_EverySubmissionSettles ==
    /\ \A t \in TaskIds : (tasks[t].pc # "none") ~> Settled(tasks[t])
    /\ \A c \in Cycles : (monitor[c] = "waiting") ~> (monitor[c] = "done")

\* the value of one counter of one account, 0 before the account has any
AccountCounter(as, a, field) == IF a \in DOMAIN as THEN as[a][field] ELSE 0

\* a closure of allProofPromises ends with a failed generation in this step
GenerationFails ==
    \E w \in WorkerIds : worker[w].pc # "failed" /\ worker'[w].pc = "failed"

\* the monitor of some cycle resumes from Promise.allSettled in this step
MonitorResumes ==
    \E c \in Cycles : monitor[c] # "done" /\ monitor'[c] = "done"

\* C32: no step of a submission chain (attempt, event, deadline, wait,
\* reconnect, return) changes a counter.  submitted changes only in the
\* step that starts a cycle, totalAttempts only in the step that ends a
\* generation phase, successful only in a step in which a monitor resumes,
\* and failed only in such a step or in one in which a generation fails.
C32_ChainChangesNoStatistics ==
    [][ /\ \A a \in DOMAIN accountStats' :
             /\ AccountCounter(accountStats', a, "submitted")
                   # AccountCounter(accountStats, a, "submitted")
                 => cycle' = cycle + 1
             /\ AccountCounter(accountStats', a, "successful")
                   # AccountCounter(accountStats, a, "successful")
                 => MonitorResumes
             /\ AccountCounter(accountStats', a, "failed")
                   # AccountCounter(accountStats, a, "failed")
                 => (MonitorResumes \/ GenerationFails)
        /\ stats'.totalAttempts # stats.totalAttempts
             => (sched = "generating" /\ sched' # "generating")
        /\ stats'.successful # stats.successful => MonitorResumes
        /\ stats'.failed # stats.failed => (MonitorResumes \/ GenerationFails)
        /\ DOMAIN accountStats \subseteq DOMAIN accountStats'
      ]_vars

\* proof A of the triple account has returned on its third attempt, after a
\* connection error, a wait, a reconnect and an expired deadline, while the
\* monitor of the cycle is waiting; every counter is as the dispatch left it
C32_Witness ==
    /\ cycle = 1
    /\ monitor[1] = "waiting"
    /\ session = 2
    /\ tasks[<<1, 0, "A">>].pc = "returned"
    /\ tasks[<<1, 0, "A">>].attempts = 3
    /\ accountStats[DeriveAddress(0)] =
          [ submitted |-> 3, successful |-> 0, failed |-> 0 ]
    /\ stats.successful = 0
    /\ stats.failed = 0

\* C33: in every state, in the middle of a generation phase as well, the
\* global counters satisfy successful + failed <= totalAttempts.
C33_OutcomesWithinAttempts ==
    stats.successful + stats.failed <= stats.totalAttempts

\* the tasks that are inside reconnectSessionWithDerivedAccounts
InReconnect == { t \in TaskIds : Reconnecting(tasks[t]) }

\* C34: at most one reconnect is in progress at any time, so that the
\* session and the roster are never replaced by two reconnects that
\* interleave.
C34_OneReconnectAtATime == Cardinality(InReconnect) <= 1

\* C35: a task leaves its reconnect, whether the reconnect returned or
\* threw at any of its three awaited calls, only by starting its next
\* attempt: the chain has not settled, the attempt uses the session that
\* is current in that step, and retryCount is what it was before the
\* reconnect; a task is inside a reconnect only while attempts remain.
C35_ReconnectFailureSwallowed ==
    /\ [][ \A t \in TaskIds :
             (Reconnecting(tasks[t]) /\ ~Reconnecting(tasks'[t])) =>
                 /\ StartsAttempt(t)
                 /\ InProgress(tasks'[t])
                 /\ ~Settled(tasks'[t])
                 /\ tasks'[t].sess = session'
                 /\ tasks'[t].retryCount = tasks[t].retryCount ]_vars
    /\ []( \A t \in TaskIds :
             Reconnecting(tasks[t]) =>
                 /\ ~Settled(tasks[t])
                 /\ tasks[t].retryCount < maxRetries
                 /\ tasks[t].attempts = tasks[t].retryCount )

\* a task is on its second attempt, on the first session: the reconnect it
\* made after its first failure threw before a new session was built
C35_Witness ==
    \E t \in TaskIds :
        /\ session = 1
        /\ InProgress(tasks[t])
        /\ tasks[t].attempts = 2
        /\ tasks[t].retryCount = 1
        /\ tasks[t].reconnects = 1
        /\ tasks[t].sess = 1

\* the submitProof calls made so far
Called == { t \in TaskIds : tasks[t].pc # "none" }

\* C36: a task starts a reconnect only after its first or its second
\* failed attempt, and once per failed attempt, hence at most
\* maxRetries - 1 times; the sessions built by reconnects number at most
\* maxRetries - 1 per submitProof call; and the failure of the last attempt
\* ends the chain in the same step, with no wait and no reconnect, also
\* when it is a connection loss.
C36_NoReconnectAfterLastAttempt ==
    /\ [][ \A t \in TaskIds :
             /\ (tasks'[t].pc = "reconnect1" /\ tasks[t].pc # "reconnect1")
                   => /\ tasks[t].retryCount \in 1 .. (maxRetries - 1)
                      /\ tasks'[t].retryCount = tasks[t].retryCount
                      /\ tasks[t].reconnects = 0
                      /\ tasks'[t].reconnects = 1
             /\ tasks'[t].retryCount >= tasks[t].retryCount
             /\ (tasks'[t].reconnects < tasks[t].reconnects)
                   => (tasks'[t].retryCount > tasks[t].retryCount
                         \/ Settled(tasks'[t]))
             /\ (tasks'[t].retryCount = maxRetries
                   /\ tasks[t].retryCount < maxRetries)
                   => /\ Settled(tasks'[t])
                      /\ tasks'[t].pc = LoopExit
                      /\ tasks'[t].timer = -1 ]_vars
    /\ []( \A t \in TaskIds :
             /\ tasks[t].retryCount <= maxRetries
             /\ tasks[t].reconnects <= 1
             /\ Settled(tasks[t]) => ~Waiting(tasks[t]) /\ tasks[t].timer = -1
             /\ Waiting(tasks[t]) => tasks[t].retryCount < maxRetries )
    /\ []( session - 1 <= (maxRetries - 1) * Cardinality(Called) )

\* a chain has ended with its third failure, a connection loss, after two
\* reconnects that each built a session; no timer of the task is armed
C36_Witness ==
    \E t \in TaskIds :
        /\ Called = { t }
        /\ session = maxRetries
        /\ tasks[t].retryCount = maxRetries
        /\ LostConnection(t)
        /\ Settled(tasks[t])
        /\ tasks[t].timer = -1

\* C37: when a single-shot run has exited after its cycle, every submission
\* the cycle dispatched has settled, the monitor has applied the outcomes,
\* and the delayed submissions B and C have been started.
C37_ExitAfterSubmissionsSettle ==
    (mode = "single" /\ proc = "exited" /\ cycle = 1) =>
        /\ \A t \in Called : Settled(tasks[t])
        /\ \A t \in Called : tasks[t].pc # "delay"
        /\ monitor[1] = "done"

\* the entries <<c, j>> of the arrays of the cycles whose monitor has
\* resumed, for account index i, by outcome
Applied(i, ok) ==
    { e \in Cycles \X (1 .. ExpectedPerCycle) :
        /\ e[2] <= Len(submitPromises[e[1]])
        /\ monitor[e[1]] = "done"
        /\ submitPromises[e[1]][e[2]].accountIndex = i
        /\ CountsAsSuccess(tasks[submitPromises[e[1]][e[2]].task]) = ok }

\* the cycles in which the generation of account index i failed
FailedGenerations(i) == { c \in Cycles : worker[<<c, i>>].pc = "failed" }

RECURSIVE SumApplied(_, _)
SumApplied(i, ok) ==
    IF i >= NumAccounts THEN 0
    ELSE Cardinality(Applied(i, ok)) + SumApplied(i + 1, ok)

RECURSIVE SumFailedGenerations(_)
SumFailedGenerations(i) ==
    IF i >= NumAccounts THEN 0
    ELSE (IF IsTriple(i) THEN 3 ELSE 1) * Cardinality(FailedGenerations(i))
           + SumFailedGenerations(i + 1)

\* C38: a monitor resumes only when every submission of its cycle has
\* settled, and the successful and failed counters, per account and
\* global, hold the outcomes of exactly the cycles whose monitor has
\* resumed (next to the failed generations): while one task of a cycle is
\* unsettled no outcome of that cycle is in any counter.
C38_OutcomesAppliedAsOneBatch ==
    /\ [][ \A c \in Cycles :
             (monitor[c] # "done" /\ monitor'[c] = "done")
                => \A j \in 1 .. Len(submitPromises'[c]) :
                      Settled(tasks'[submitPromises'[c][j].task]) ]_vars
    /\ []( cycle >= 1 =>
             /\ \A i \in Indexes :
                   /\ accountStats[DeriveAddress(i)].successful
                         = Cardinality(Applied(i, TRUE))
                   /\ accountStats[DeriveAddress(i)].failed
                         = Cardinality(Applied(i, FALSE))
                             + (IF IsTriple(i)
                                THEN 3 * Cardinality(FailedGenerations(i))
                                ELSE 0)
             /\ stats.successful = SumApplied(0, TRUE)
             /\ stats.failed = SumApplied(0, FALSE) + SumFailedGenerations(0) )

\* proof A of the triple account has been included and its chain has
\* returned, another submission of the cycle is unsettled, the monitor is
\* waiting, and no successful counter has moved
C38_Witness ==
    /\ monitor[1] = "waiting"
    /\ tasks[<<1, 0, "A">>].result = "success"
    /\ Unsettled(1)
    /\ accountStats[DeriveAddress(0)].successful = 0
    /\ stats.successful = 0

\* the step in which runParallelProofCycles calls updateProofStats
Pushes == sched = "generating" /\ sched' # "generating"

\* C39: the counters of the health endpoint change only when the pipeline
\* pushes them through updateProofStats; the periodic refresh of the health
\* server leaves them alone.
C39_HealthShowsLastPush == [][ health' # health => Pushes ]_vars

=============================================================================
